---- MODULE Spec2Model ----
(***************************************************************************)
(* Model of the XA Dimensioning effect extension (src/xa_dimensioning.py). *)
(*                                                                         *)
(* One run of XADimensioning.effect() is modelled as a state machine: the  *)
(* option record is normalised to document units, the selection is split   *)
(* into paths and rectangles, and every path and then every rectangle is   *)
(* annotated by one call of _annotatePath / _annotatePathPerpendicularly / *)
(* _annotateRect, each of which appends one group to the current layer.    *)
(*                                                                         *)
(* Lengths are fixed-point integers counting tenths of a unit (100 is      *)
(* 10.0), so that round(value, precision) is a real conversion.  The       *)
(* px-to-user-unit factor _uuperpx is a plain integer factor.              *)
(* The end points q0 and q1 of the perpendicular dimension line contain a  *)
(* factor .5; the model stores them doubled (a line of kind "L2").         *)
(* Presentation-only attributes (text dx/dy placement hints, the style     *)
(* dictionary apart from font-size, the ":xa-dimning" marker attributes)   *)
(* are not part of the modelled state.                                     *)
(***************************************************************************)
EXTENDS Integers, Sequences, FiniteSets, TLC

VARIABLES
    argv,        \* the options as parsed from the command line (never written)
    options,     \* self.options, mutated in place by effect()
    svg,         \* the document: its unit symbol and px -> user unit factor
    selection,   \* self.svg.selection, a sequence of element ids
    display,     \* style["display"] of every element of the document
    layer,       \* children appended to self.svg.get_current_layer()
    nodesPath,   \* selection.filter(inkex.PathElement)
    nodesRect,   \* selection.filter(inkex.Rectangle)
    i,           \* position of the running for loop in its list
    pc           \* position of effect(): start, filter, paths, rects,
                 \* done, aborted (AbortExtension), crashed (uncaught error)

vars == <<argv, options, svg, selection, display, layer, nodesPath, nodesRect, i, pc>>

----------------------------------------------------------------------------
(* Bounds and input domains *)

MaxSel == 3

Hides == BOOLEAN
Perps == BOOLEAN
UseUUs == BOOLEAN
XOffsets == {100, 200}
YOffsets == {100, 300}
FontSizes == {100}
Precisions == {0, 2}
Documents == {[document_unit |-> "px", uuperpx |-> 1],
              [document_unit |-> "pt", uuperpx |-> 2]}

Corner(p) == <<p, p, p>>

BBox(l, t, r, b) == [left |-> l, top |-> t, right |-> r, bottom |-> b]

(* The elements of the document.  csp is the superpath of a path: a        *)
(* sequence of <<incoming control, point, outgoing control>> triplets.     *)
(* stotal is the arc length the host's csplength returns for it.           *)
(*   pA  polyline (0,0) (6,8) (18,8): wider than high                      *)
(*   pB  straight line (0,0) (3,4): higher than wide                       *)
(*   pC  one curved segment (0,0) .. (4,4): as wide as high                *)
(*   pZ  straight segment whose two anchors coincide                       *)
(*   rA  rectangle 100 x 40, stroke-width 2px                              *)
(*   rB  rectangle 25 x 40.5, no stroke-width attribute                    *)
(*   eA  an ellipse                                                        *)
Elements ==
    [eid \in {"pA", "pB", "pC", "pZ", "rA", "rB", "eA"} |->
      CASE eid = "pA" -> [kind |-> "path", bbox |-> BBox(0, 0, 180, 80),
                          csp |-> <<Corner(<<0, 0>>), Corner(<<60, 80>>), Corner(<<180, 80>>)>>,
                          stotal |-> 220, stroke_width |-> <<10>>]
        [] eid = "pB" -> [kind |-> "path", bbox |-> BBox(0, 0, 30, 40),
                          csp |-> <<Corner(<<0, 0>>), Corner(<<30, 40>>)>>,
                          stotal |-> 50, stroke_width |-> <<10>>]
        [] eid = "pC" -> [kind |-> "path", bbox |-> BBox(0, 0, 40, 40),
                          csp |-> << <<(<<0, 0>>), (<<0, 0>>), (<<0, 20>>)>>,
                                     <<(<<20, 40>>), (<<40, 40>>), (<<40, 40>>)>> >>,
                          stotal |-> 59, stroke_width |-> <<10>>]
        [] eid = "pZ" -> [kind |-> "path", bbox |-> BBox(20, 20, 20, 20),
                          csp |-> <<Corner(<<20, 20>>), Corner(<<20, 20>>)>>,
                          stotal |-> 0, stroke_width |-> <<10>>]
        [] eid = "rA" -> [kind |-> "rect", bbox |-> BBox(0, 0, 1000, 400),
                          csp |-> <<>>, stotal |-> 0, stroke_width |-> <<20>>]
        [] eid = "rB" -> [kind |-> "rect", bbox |-> BBox(0, 0, 250, 405),
                          csp |-> <<>>, stotal |-> 0, stroke_width |-> <<>>]
        [] eid = "eA" -> [kind |-> "ellipse", bbox |-> BBox(0, 0, 50, 30),
                          csp |-> <<>>, stotal |-> 0, stroke_width |-> <<10>>]]

Eids == DOMAIN Elements

RECURSIVE SeqsUpTo(_)
SeqsUpTo(n) ==
    IF n = 0 THEN {<<>>}
    ELSE LET shorter == SeqsUpTo(n - 1)
         IN  shorter \cup {Append(s, e) : s \in {t \in shorter : Len(t) = n - 1},
                                          e \in Eids}

IsInjective(s) == \A a, b \in 1..Len(s) : s[a] = s[b] => a = b

Selections == {s \in SeqsUpTo(MaxSel) : IsInjective(s)}

----------------------------------------------------------------------------
(* Arithmetic helpers *)

Abs(x) == IF x < 0 THEN -x ELSE x

\* math.sqrt on the perfect squares the catalogue produces
sqrt(n) == CHOOSE k \in 0..n : k * k <= n /\ (k + 1) * (k + 1) > n

\* Python round(v, ndigits) on a value held in tenths: round half to even
round(v, ndigits) ==
    IF ndigits >= 1 THEN v
    ELSE LET q == v \div 10
             r == v % 10
         IN  IF r < 5 THEN 10 * q
             ELSE IF r > 5 THEN 10 * (q + 1)
             ELSE IF q % 2 = 0 THEN 10 * q ELSE 10 * (q + 1)

width(bbox) == bbox.right - bbox.left
height(bbox) == bbox.bottom - bbox.top

----------------------------------------------------------------------------
(* Host services used by the extension *)

\* inkex.bezier.bezierparameterize: P(t) = a t^3 + b t^2 + c t + P0
bezierparameterize(bez) ==
    LET cx == 3 * (bez[2][1] - bez[1][1])
        cy == 3 * (bez[2][2] - bez[1][2])
        bx == 3 * (bez[3][1] - bez[2][1]) - cx
        by == 3 * (bez[3][2] - bez[2][2]) - cy
        ax == bez[4][1] - bez[1][1] - cx - bx
        ay == bez[4][2] - bez[1][2] - cy - by
    IN  <<ax, ay, bx, by, cx, cy>>

\* inkex.bezier.bezierslopeatt(bez, t), the derivative of P at t; the
\* extension calls it with t = 0.0 and t = 1.0 only
bezierslopeatt(bez, t) ==
    LET p == bezierparameterize(bez)
    IN  <<3 * p[1] * t * t + 2 * p[3] * t + p[5],
          3 * p[2] * t * t + 2 * p[4] * t + p[6]>>

\* inkex.units.render_unit(value, unit): the value followed by the unit
render_unit(value, unit) == <<value, unit>>

----------------------------------------------------------------------------
(* effect(): unit normalisation and selection filtering *)

\* the conversion forgets the y offset
NormalizeOptions_skipY(o, uuperpx) ==
    IF ~o.useUU
    THEN [o EXCEPT !.xoffset = o.xoffset * uuperpx,
                   !.fontsize = o.fontsize * uuperpx]
    ELSE o

\* lines 93-96: px magnitudes are converted to user units
NormalizeOptions(o, uuperpx) ==
    IF ~o.useUU
    THEN [o EXCEPT !.xoffset = o.xoffset * uuperpx,
                   !.yoffset = o.yoffset * uuperpx,
                   !.fontsize = o.fontsize * uuperpx]
    ELSE o

\* the filtered list comes out in reverse selection order
filter_reversed(sel, kind) ==
    LET f == SelectSeq(sel, LAMBDA e : Elements[e].kind = kind)
    IN  [k \in 1..Len(f) |-> f[Len(f) + 1 - k]]

\* ElementList.filter(cls): the elements of that class, in selection order
filter(sel, kind) == SelectSeq(sel, LAMBDA e : Elements[e].kind = kind)

FilterPath(sel) == filter(sel, "path")

\* every shape that is not a path passes for a rectangle
FilterRect_anyShape(sel) == SelectSeq(sel, LAMBDA e : Elements[e].kind # "path")

FilterRect(sel) == filter(sel, "rect")

\* line 101
NothingToAnnotate(paths, rects) == paths = <<>> /\ rects = <<>>

----------------------------------------------------------------------------
(* Element constructors *)

\* _appendNewGroup: the new group, linked to node
_appendNewGroup(eid) ==
    [tag |-> "g", fill |-> "none", stroke |-> options.linecolor,
     label |-> <<eid, "xa-dimning">>, href |-> eid, children |-> <<>>]

\* _horz_line: "M x1 y1 H x2"
_horz_line(y, xlat, bbox) ==
    LET x1 == bbox.left
        x2 == bbox.right + xlat[1] * options.xoffset
        y1 == y - xlat[2] * options.yoffset
    IN  [cmd |-> "H", args |-> <<x1, y1, x2>>]

\* the y extension is added instead of subtracted
_vert_line_down(x, xlat, bbox) ==
    LET xx == x - xlat[1] * options.xoffset
        y1 == bbox.top + xlat[2] * options.yoffset
        y2 == bbox.bottom
    IN  [cmd |-> "V", args |-> <<xx, y1, y2>>]

\* _vert_line: "M x y1 V y2"
_vert_line(x, xlat, bbox) ==
    LET xx == x - xlat[1] * options.xoffset
        y1 == bbox.top - xlat[2] * options.yoffset
        y2 == bbox.bottom
    IN  [cmd |-> "V", args |-> <<xx, y1, y2>>]

\* A PathElement with its "d", its stroke-width (held doubled, in px
\* multiples of _uuperpx) and its label suffix
Line(d, sw2, suffix, eid) ==
    [tag |-> "path", d |-> d, stroke_width2 |-> sw2 * svg.uuperpx,
     label |-> <<eid, suffix>>]

Guide(d, suffix, eid) == Line(d, 1, suffix, eid)

Main(d, suffix, eid) == Line(d, 2, suffix, eid)

\* the text path follows the line created before nodeHref
_addTextAlongPath_wrongLine(suffix, dimVal, nodeHref, eid) ==
    [tag |-> "text", label |-> <<eid, suffix>>,
     textPath |-> [ref |-> eid, label |-> <<eid, "dim">>,
                   startOffset |-> 50,
                   font_size |-> options.fontsize,
                   fill |-> options.linecolor,
                   href |-> nodeHref - 1,
                   text |-> render_unit(round(dimVal, options.precision),
                                        svg.document_unit)]]

\* _addTextAlongPath: the text element holding one TextPath that follows
\* nodeHref (the position of the line among the group's children)
_addTextAlongPath(suffix, dimVal, nodeHref, eid) ==
    [tag |-> "text", label |-> <<eid, suffix>>,
     textPath |-> [ref |-> eid, label |-> <<eid, "dim">>,
                   startOffset |-> 50,
                   font_size |-> options.fontsize,
                   fill |-> options.linecolor,
                   href |-> nodeHref,
                   text |-> render_unit(round(dimVal, options.precision),
                                        svg.document_unit)]]

----------------------------------------------------------------------------
(* _annotatePath: grid-orthogonal mode *)

\* a tie counts as vertical-dominant
HorizontalDominant_strict(bbox) == width(bbox) > height(bbox)

\* line 215
HorizontalDominant(bbox) == width(bbox) >= height(bbox)

\* line 252: the value handed to _addTextAlongPath
PathDimVal(bbox) == height(bbox)

\* lines 209-253: the assembled group
AnnotatePathGroup(eid) ==
    LET bbox == Elements[eid].bbox
        group == _appendNewGroup(eid)
        kids ==
          IF HorizontalDominant(bbox)
          THEN << Guide(_vert_line(bbox.left, <<0, 2>>, bbox), "horz-l", eid),
                  Guide(_vert_line(bbox.right, <<0, 2>>, bbox), "horz-r", eid),
                  Main(_horz_line(bbox.top, <<0, 1>>, bbox), "horz", eid),
                  _addTextAlongPath("horz-dim", PathDimVal(bbox), 3, eid) >>
          ELSE << Guide(_horz_line(bbox.top, <<2, 0>>, bbox), "vert-t", eid),
                  Guide(_horz_line(bbox.bottom, <<2, 0>>, bbox), "vert-b", eid),
                  Main(_vert_line(bbox.right, <<-1, 0>>, bbox), "vert", eid),
                  _addTextAlongPath("vert-dim", PathDimVal(bbox), 3, eid) >>
    IN  [group EXCEPT !.children = kids]

----------------------------------------------------------------------------
(* _annotateRect *)

\* the stroke-width stays in px
RectStroke_px(eid) ==
    LET sw == Elements[eid].stroke_width
    IN  IF sw = <<>> THEN 10 ELSE sw[1]

\* line 265: stroke-width (default "1px") in px, times _uuperpx
RectStroke(eid) ==
    LET sw == Elements[eid].stroke_width
    IN  (IF sw = <<>> THEN 10 ELSE sw[1]) * svg.uuperpx

\* lines 264-307: the assembled group
AnnotateRectGroup(eid) ==
    LET bbox == Elements[eid].bbox
        stroke == RectStroke(eid)
        group == _appendNewGroup(eid)
        kids ==
          << Main(_horz_line(bbox.top, <<0, 1>>, bbox), "horz", eid),
             Guide(_vert_line(bbox.left, <<0, 2>>, bbox), "horz-l", eid),
             Guide(_vert_line(bbox.right, <<0, 2>>, bbox), "horz-r", eid),
             Main(_vert_line(bbox.right, <<-1, 0>>, bbox), "vert", eid),
             Guide(_horz_line(bbox.top, <<2, 0>>, bbox), "vert-t", eid),
             Guide(_horz_line(bbox.bottom, <<2, 0>>, bbox), "vert-b", eid),
             _addTextAlongPath("horz-dim", width(bbox) + stroke, 1, eid),
             _addTextAlongPath("vert-dim", height(bbox) + stroke, 4, eid) >>
    IN  [group EXCEPT !.children = kids]

----------------------------------------------------------------------------
(* _annotatePathPerpendicularly *)

\* csp_reduce_bz: the control points of the first and of the last segment
csp_reduce_bz(csp) ==
    LET n == Len(csp)
    IN  << <<csp[1][2], csp[1][3], csp[2][1], csp[2][2]>>,
           <<csp[n - 1][2], csp[n - 1][3], csp[n][1], csp[n][2]>> >>

\* lines 155, 163: the handle at that end coincides with its anchor
StraightStart(bzA) == bzA[1] = bzA[2]

StraightEnd(bzB) == bzB[4] = bzB[3]

\* the chord is scaled by the offsets without being normalised
StraightTangent_unnormalized(bz) ==
    LET x == bz[4][1] - bz[1][1]
        y == bz[4][2] - bz[1][2]
    IN  <<(x * options.xoffset) \div 10, (y * options.yoffset) \div 10>>

\* lines 156-160, 164-168: anchor-to-far-anchor vector times
\* 1 / sqrt(x**2 + y**2), x scaled by xoffset and y by yoffset
StraightTangent(bz) ==
    LET x == bz[4][1] - bz[1][1]
        y == bz[4][2] - bz[1][2]
        len == sqrt(x * x + y * y)
    IN  <<(x * options.xoffset) \div len, (y * options.yoffset) \div len>>

\* 1 / sqrt(0) raises ZeroDivisionError
ZeroDivision(bz) ==
    LET x == bz[4][1] - bz[1][1]
        y == bz[4][2] - bz[1][2]
    IN  sqrt(x * x + y * y) = 0

StartTangent(bzA) ==
    IF StraightStart(bzA) THEN StraightTangent(bzA) ELSE bezierslopeatt(bzA, 0)

EndTangent(bzB) ==
    IF StraightEnd(bzB) THEN StraightTangent(bzB) ELSE bezierslopeatt(bzB, 1)

\* the call raises before anything is appended (lines 158, 166)
PerpRaises(eid) ==
    LET bz == csp_reduce_bz(Elements[eid].csp)
    IN  \/ StraightStart(bz[1]) /\ ZeroDivision(bz[1])
        \/ StraightEnd(bz[2]) /\ ZeroDivision(bz[2])

\* lines 171-199: the assembled group; q0 and q1 are held doubled ("L2")
AnnotatePerpGroup(eid) ==
    LET bz == csp_reduce_bz(Elements[eid].csp)
        a == StartTangent(bz[1])
        b == EndTangent(bz[2])
        p0 == bz[1][1]
        p1 == bz[2][4]
        q0 == <<2 * p0[1] + a[2], 2 * p0[2] - a[1]>>
        q1 == <<2 * p1[1] + b[2], 2 * p1[2] - b[1]>>
        group == _appendNewGroup(eid)
        kids ==
          << Guide([cmd |-> "l", args |-> <<p0[1], p0[2], a[2], -a[1]>>], "", eid),
             Guide([cmd |-> "l", args |-> <<p1[1], p1[2], b[2], -b[1]>>], "", eid),
             Main([cmd |-> "L2", args |-> <<q0[1], q0[2], q1[1], q1[2]>>], "", eid),
             _addTextAlongPath("vert-dim", Elements[eid].stotal, 3, eid) >>
    IN  [group EXCEPT !.children = kids]

----------------------------------------------------------------------------
(* The run *)

Init ==
    /\ argv \in [hide : Hides, perp : Perps, linecolor : {"orange"},
                 useUU : UseUUs, fontsize : FontSizes, xoffset : XOffsets,
                 yoffset : YOffsets, precision : Precisions]
    /\ options = argv
    /\ svg \in Documents
    /\ selection \in Selections
    /\ display = [e \in Eids |-> "inline"]
    /\ layer = <<>>
    /\ nodesPath = <<>>
    /\ nodesRect = <<>>
    /\ i = 1
    /\ pc = "start"

\* lines 88-96
Normalize ==
    /\ pc = "start"
    /\ options' = NormalizeOptions(options, svg.uuperpx)
    /\ pc' = "filter"
    /\ UNCHANGED <<argv, svg, selection, display, layer, nodesPath, nodesRect, i>>

\* lines 98-102, nothing eligible: AbortExtension
Abort ==
    /\ pc = "filter"
    /\ NothingToAnnotate(FilterPath(selection), FilterRect(selection))
    /\ pc' = "aborted"
    /\ UNCHANGED <<argv, options, svg, selection, display, layer, nodesPath, nodesRect, i>>

\* lines 98-104, 112: the lists are built and the first loop is entered
Select ==
    /\ pc = "filter"
    /\ ~NothingToAnnotate(FilterPath(selection), FilterRect(selection))
    /\ nodesPath' = FilterPath(selection)
    /\ nodesRect' = FilterRect(selection)
    /\ i' = 1
    /\ pc' = IF FilterPath(selection) # <<>> THEN "paths" ELSE "rects"
    /\ UNCHANGED <<argv, options, svg, selection, display, layer>>

\* where effect() continues after the i-th path
AfterPath ==
    IF i < Len(nodesPath) THEN <<"paths", i + 1>>
    ELSE IF nodesRect # <<>> THEN <<"rects", 1>>
    ELSE <<"done", 1>>

\* where effect() continues after the i-th rectangle
AfterRect ==
    IF i < Len(nodesRect) THEN <<"rects", i + 1>> ELSE <<"done", 1>>

\* lines 109-110 with _annotatePath, lines 203-256
AnnotatePath ==
    /\ pc = "paths"
    /\ ~options.perp
    /\ LET eid == nodesPath[i]
       IN  /\ layer' = Append(layer, AnnotatePathGroup(eid))
           /\ display' = IF options.hide
                         THEN [display EXCEPT ![eid] = "none"]
                         ELSE display
    /\ pc' = AfterPath[1]
    /\ i' = AfterPath[2]
    /\ UNCHANGED <<argv, options, svg, selection, nodesPath, nodesRect>>

\* lines 106-107 with _annotatePathPerpendicularly, lines 133-199
AnnotatePathPerpendicularly ==
    /\ pc = "paths"
    /\ options.perp
    /\ ~PerpRaises(nodesPath[i])
    /\ layer' = Append(layer, AnnotatePerpGroup(nodesPath[i]))
    /\ pc' = AfterPath[1]
    /\ i' = AfterPath[2]
    /\ UNCHANGED <<argv, options, svg, selection, display, nodesPath, nodesRect>>

\* lines 158, 166: ZeroDivisionError leaves effect() through the loop
PerpendicularRaise ==
    /\ pc = "paths"
    /\ options.perp
    /\ PerpRaises(nodesPath[i])
    /\ pc' = "crashed"
    /\ UNCHANGED <<argv, options, svg, selection, display, layer, nodesPath, nodesRect, i>>

\* lines 113-114 with _annotateRect, lines 258-310
AnnotateRect ==
    /\ pc = "rects"
    /\ LET eid == nodesRect[i]
       IN  /\ layer' = Append(layer, AnnotateRectGroup(eid))
           /\ display' = IF options.hide
                         THEN [display EXCEPT ![eid] = "none"]
                         ELSE display
    /\ pc' = AfterRect[1]
    /\ i' = AfterRect[2]
    /\ UNCHANGED <<argv, options, svg, selection, nodesPath, nodesRect>>

Next ==
    \/ Normalize
    \/ Abort
    \/ Select
    \/ AnnotatePath
    \/ AnnotatePathPerpendicularly
    \/ PerpendicularRaise
    \/ AnnotateRect

Spec == Init /\ [][Next]_vars

TypeOK ==
    /\ pc \in {"start", "filter", "paths", "rects", "done", "aborted", "crashed"}
    /\ i \in 1..(MaxSel + 1)
    /\ Len(layer) <= Len(selection)

----------------------------------------------------------------------------
(* Vocabulary of the properties *)

Eligible(eid) == Elements[eid].kind \in {"path", "rect"}

EligibleIn(sel) == {k \in 1..Len(sel) : Eligible(sel[k])}

KindIn(sel, kind) == SelectSeq(sel, LAMBDA e : Elements[e].kind = kind)

Groups == {layer[k] : k \in 1..Len(layer)}

GroupsOf(kind) == {g \in Groups : Elements[g.href].kind = kind}

Hrefs == [k \in 1..Len(layer) |-> layer[k].href]

Children(g, tag) == SelectSeq(g.children, LAMBDA c : c.tag = tag)

Count(g, tag, sw2) ==
    Cardinality({k \in 1..Len(g.children) :
                    /\ g.children[k].tag = tag
                    /\ g.children[k].stroke_width2 = sw2 * svg.uuperpx})

Labels(g) == {k \in 1..Len(g.children) : g.children[k].tag = "text"}

\* the offsets and font size every shape must be annotated with
Resolved(raw) == IF argv.useUU THEN raw ELSE raw * svg.uuperpx

Finished == pc \in {"done", "aborted", "crashed"}

----------------------------------------------------------------------------
(* C1 *)

----------------------------------------------------------------------------
(* C2 *)

\* C2: every shape that has been annotated, in whatever mode, has its
\* display suppressed iff the hide option is set.
C2_HiddenIffHide ==
    \A g \in Groups :
      display[g.href] = (IF argv.hide THEN "none" ELSE "inline")

----------------------------------------------------------------------------
(* C3 *)

\* C3: with no path and no rectangle in the selection the run can only
\* abort: nothing is ever appended to the layer, no display is changed
\* and no annotation loop is entered.
C3_InvalidSelectionAborts ==
    EligibleIn(selection) = {} =>
      /\ layer = <<>>
      /\ \A e \in Eids : display[e] = "inline"
      /\ pc \in {"start", "filter", "aborted"}

\* an ellipse alone was selected and the run has aborted
C3_Witness ==
    /\ selection = <<"eA">>
    /\ pc = "aborted"
    /\ layer = <<>>

----------------------------------------------------------------------------
(* C4 *)

\* C4: a run never crashes, and it never ends with some but not all of
\* the eligible shapes annotated.
C4_AllOrNothing ==
    /\ pc # "crashed"
    /\ Finished => Len(layer) \in {0, Cardinality(EligibleIn(selection))}

----------------------------------------------------------------------------
(* C5 *)

\* C5 (as amended): the groups appear in the layer in the order: all
\* selected paths in selection order, then all selected rectangles in
\* selection order; every group in the layer is completely assembled
\* (its label is in place) before the next one is created.
C5_PathsThenRects ==
    LET order == KindIn(selection, "path") \o KindIn(selection, "rect")
    IN  /\ Len(layer) <= Len(order)
        /\ \A k \in 1..Len(layer) :
             /\ layer[k].href = order[k]
             /\ Labels(layer[k]) # {}
             /\ \A c \in Labels(layer[k]) : layer[k].children[c].textPath.ref = order[k]

\* C5 (as claimed): the groups appear in the layer in selection order,
\* whatever the kinds of the shapes.
C5_SelectionOrder ==
    \A j, k \in 1..Len(layer) :
      j < k =>
        \E a, b \in 1..Len(selection) :
          /\ a < b
          /\ selection[a] = layer[j].href
          /\ selection[b] = layer[k].href

\* two paths selected around a rectangle have all been annotated
C5_Witness ==
    /\ pc = "done"
    /\ selection = <<"pA", "rA", "pB">>
    /\ Hrefs = <<"pA", "pB", "rA">>

----------------------------------------------------------------------------
(* C6 *)

\* C6: in either mode the horizontal label of a rectangle reads
\* round(W + S) and its vertical label round(H + S), W and H being the
\* extents of the bounding box and S the stroke-width (1px if unset) in
\* user units; the offsets do not enter.
C6_RectValues ==
    \A g \in GroupsOf("rect") :
      LET node == Elements[g.href]
          W == node.bbox.right - node.bbox.left
          H == node.bbox.bottom - node.bbox.top
          S == (IF node.stroke_width = <<>> THEN 10 ELSE node.stroke_width[1])
                 * svg.uuperpx
          horz == CHOOSE c \in Labels(g) : g.children[c].label[2] = "horz-dim"
          vert == CHOOSE c \in Labels(g) : g.children[c].label[2] = "vert-dim"
      IN  /\ Cardinality(Labels(g)) = 2
          /\ g.children[horz].textPath.text =
               <<round(W + S, argv.precision), svg.document_unit>>
          /\ g.children[g.children[horz].textPath.href].d.cmd = "H"
          /\ g.children[vert].textPath.text =
               <<round(H + S, argv.precision), svg.document_unit>>
          /\ g.children[g.children[vert].textPath.href].d.cmd = "V"

\* a rectangle without stroke-width was annotated in perpendicular mode in
\* a document whose user unit is not the px, with rounding to integers
C6_Witness ==
    /\ pc = "done"
    /\ argv.perp
    /\ svg.uuperpx = 2
    /\ argv.precision = 0
    /\ \E g \in GroupsOf("rect") : g.href = "rB"

----------------------------------------------------------------------------
(* C7 *)

\* C7 (as amended): for a horizontal-dominant path the two tick lines are
\* vertical, at x = left and x = right, from the bottom edge to twice
\* yOffset above the top edge; the main line is horizontal at
\* y = top - yOffset and runs from x = left to x = right, without any
\* extension by xOffset; the label follows that main line.
C7_HorizontalLayout ==
    ~argv.perp =>
      \A g \in GroupsOf("path") :
        LET bbox == Elements[g.href].bbox
            yOffset == Resolved(argv.yoffset)
        IN  bbox.right - bbox.left >= bbox.bottom - bbox.top =>
              /\ g.children[1].d =
                   [cmd |-> "V", args |-> <<bbox.left, bbox.top - 2 * yOffset, bbox.bottom>>]
              /\ g.children[2].d =
                   [cmd |-> "V", args |-> <<bbox.right, bbox.top - 2 * yOffset, bbox.bottom>>]
              /\ g.children[3].d =
                   [cmd |-> "H", args |-> <<bbox.left, bbox.top - yOffset, bbox.right>>]
              /\ g.children[4].textPath.href = 3

\* C7 (as claimed): the ticks reach yOffset above the top edge, and the
\* main line lies on the top edge and ends xOffset past the right edge.
C7_AsClaimed ==
    ~argv.perp =>
      \A g \in GroupsOf("path") :
        LET bbox == Elements[g.href].bbox
            xOffset == Resolved(argv.xoffset)
            yOffset == Resolved(argv.yoffset)
        IN  bbox.right - bbox.left >= bbox.bottom - bbox.top =>
              /\ g.children[1].d =
                   [cmd |-> "V", args |-> <<bbox.left, bbox.top - yOffset, bbox.bottom>>]
              /\ g.children[2].d =
                   [cmd |-> "V", args |-> <<bbox.right, bbox.top - yOffset, bbox.bottom>>]
              /\ g.children[3].d =
                   [cmd |-> "H", args |-> <<bbox.left, bbox.top, bbox.right + xOffset>>]
              /\ g.children[4].textPath.href = 3

\* a wider-than-high path was annotated in grid mode with px offsets
C7_Witness ==
    /\ pc = "done"
    /\ ~argv.perp
    /\ ~argv.useUU
    /\ svg.uuperpx = 2
    /\ \E g \in GroupsOf("path") : g.href = "pA"

----------------------------------------------------------------------------
(* C8 *)

\* C8: when a run has completed, the layer holds exactly one group per
\* selected path or rectangle and none for anything else, each linked to
\* its shape; a path's group has 2 guides, 1 main line and 1 label, a
\* rectangle's 4 guides, 2 main lines and 2 labels; and each label's
\* text path follows a main line of its own group.
C8_OneGroupPerShape ==
    pc = "done" =>
      /\ Len(layer) = Cardinality(EligibleIn(selection))
      /\ \A k \in EligibleIn(selection) :
           Cardinality({j \in 1..Len(layer) : layer[j].href = selection[k]}) = 1
      /\ \A g \in Groups :
           LET n == IF Elements[g.href].kind = "rect" THEN 2 ELSE 1
           IN  /\ Eligible(g.href)
               /\ Count(g, "path", 1) = 2 * n
               /\ Count(g, "path", 2) = n
               /\ Cardinality(Labels(g)) = n
               /\ Len(g.children) = 4 * n
               /\ \A c \in Labels(g) :
                    LET h == g.children[c].textPath.href
                    IN  /\ h \in 1..Len(g.children)
                        /\ g.children[h].tag = "path"
                        /\ g.children[h].stroke_width2 = 2 * svg.uuperpx
                        /\ g.children[c].textPath.ref = g.href
               /\ \A c, e \in Labels(g) :
                    g.children[c].textPath.href = g.children[e].textPath.href => c = e

\* a path, an ellipse and a rectangle were selected and the run completed
C8_Witness ==
    /\ pc = "done"
    /\ selection = <<"rA", "eA", "pC">>
    /\ Len(layer) = 2

----------------------------------------------------------------------------
(* C9 *)

\* C9: before the normalisation step nothing is appended and the options
\* are as parsed; from that step on, whatever has been annotated, xoffset,
\* yoffset and fontsize are the parsed values times _uuperpx when useUU
\* is false and the parsed values when it is true, and every other
\* option is as parsed.
C9_NormalizedOnce ==
    /\ pc = "start" => options = argv /\ layer = <<>>
    /\ pc # "start" =>
         options = [argv EXCEPT !.xoffset = Resolved(argv.xoffset),
                                !.yoffset = Resolved(argv.yoffset),
                                !.fontsize = Resolved(argv.fontsize)]
    /\ \A g \in Groups : \A c \in Labels(g) :
         g.children[c].textPath.font_size = Resolved(argv.fontsize)

\* three shapes were annotated with offsets given in px in a document
\* whose user unit is not the px
C9_Witness ==
    /\ pc = "done"
    /\ ~argv.useUU
    /\ svg.uuperpx = 2
    /\ Len(layer) = 3
    /\ options.xoffset = 2 * argv.xoffset

----------------------------------------------------------------------------
(* C10 *)

\* the tangent the claim describes for the segment bz at parameter t:
\* for a straight end the unit chord, x times xOffset and y times yOffset
IsClaimedTangent(v, bz, t, straight) ==
    LET x == bz[4][1] - bz[1][1]
        y == bz[4][2] - bz[1][2]
    IN  IF straight
        THEN \E len \in 1..(Abs(x) + Abs(y)) :
               /\ len * len = x * x + y * y
               /\ v[1] * len = x * Resolved(argv.xoffset)
               /\ v[2] * len = y * Resolved(argv.yoffset)
        ELSE IF t = 0
             THEN v = <<3 * (bz[2][1] - bz[1][1]), 3 * (bz[2][2] - bz[1][2])>>
             ELSE v = <<3 * (bz[4][1] - bz[3][1]), 3 * (bz[4][2] - bz[3][2])>>

\* C10: in perpendicular mode the start tick runs from p0 by (ay, -ax),
\* the end tick from p1 by (by, -bx), and the main line from
\* p0 + (ay, -ax)/2 to p1 + (by, -bx)/2, where a and b are the tangents at
\* the two ends: the derivative of the segment, or for a straight end the
\* unit chord with x scaled by xOffset and y by yOffset.
C10_PerpendicularTicks ==
    argv.perp =>
      \A g \in GroupsOf("path") :
        LET csp == Elements[g.href].csp
            n == Len(csp)
            bzA == <<csp[1][2], csp[1][3], csp[2][1], csp[2][2]>>
            bzB == <<csp[n - 1][2], csp[n - 1][3], csp[n][1], csp[n][2]>>
            p0 == csp[1][2]
            p1 == csp[n][2]
            t0 == g.children[1].d
            t1 == g.children[2].d
            m == g.children[3].d
            a == <<-t0.args[4], t0.args[3]>>
            b == <<-t1.args[4], t1.args[3]>>
        IN  /\ t0.cmd = "l" /\ t1.cmd = "l" /\ m.cmd = "L2"
            /\ <<t0.args[1], t0.args[2]>> = p0
            /\ <<t1.args[1], t1.args[2]>> = p1
            /\ IsClaimedTangent(a, bzA, 0, csp[1][3] = csp[1][2])
            /\ IsClaimedTangent(b, bzB, 1, csp[n][1] = csp[n][2])
            /\ m.args = <<2 * p0[1] + a[2], 2 * p0[2] - a[1],
                          2 * p1[1] + b[2], 2 * p1[2] - b[1]>>

\* a polyline, a straight line of another length and a curve were
\* annotated in perpendicular mode with different x and y offsets
C10_Witness ==
    /\ pc = "done"
    /\ argv.perp
    /\ options.xoffset # options.yoffset
    /\ {g.href : g \in Groups} = {"pA", "pB", "pC"}

====
